---------------------------- MODULE Spec2Model ----------------------------
(***************************************************************************)
(* Model of the chart-pattern engine (src/detector.py, PatternDetector)    *)
(* and of its two callers in src/app.py: the on-demand get_patterns        *)
(* handler and the polling threads started by start_live_updates, which     *)
(* all share the one PatternDetector instance of data_manager.              *)
(*                                                                         *)
(* Numbers.  Prices are positive integers.  The code computes in binary64; *)
(* the model computes the same expressions exactly, as rationals:          *)
(*   - a comparison  x / y < c  with y > 0 is cross-multiplied;            *)
(*   - the price fields of a signal (entry, stop_loss, target) are held as *)
(*     integers in units of 1/400: the percentage factors need 1/100 and   *)
(*     the percentile interpolation of 20 values needs 1/4;                *)
(*   - risk_reward is held in tenths (2.5 is 25).                          *)
(* Rounding of binary64 (relative error about 1e-16) is not modelled.      *)
(* Indices of peaks and troughs are the code's 0-based indices; the        *)
(* sequences of the model are 1-based, so series[i] of the code is         *)
(* s[i + 1] here.                                                          *)
(***************************************************************************)
EXTENDS Integers, Sequences, FiniteSets, TLC

VARIABLES
    min_periods,   \* PatternDetector.min_periods, the detector's only field
    pc,            \* per thread: the statement it is at
    data,          \* per thread: the candle list its fetch returned
    peaks,         \* per thread: the local peaks / troughs list of a detector
    patterns,      \* per thread: the local patterns list of detect_patterns
    ret            \* per thread: what detect_patterns returned

vars == <<min_periods, pc, data, peaks, patterns, ret>>

Threads == {"handler", "poller1", "poller2"}
Pollers == {"poller1", "poller2"}

---------------------------------------------------------------------------
(* Small helpers of the arithmetic *)

Abs(x) == IF x < 0 THEN -x ELSE x
Max2(a, b) == IF a > b THEN a ELSE b
Min2(a, b) == IF a < b THEN a ELSE b

RECURSIVE SumSeq(_)
SumSeq(s) == IF s = <<>> THEN 0 ELSE Head(s) + SumSeq(Tail(s))

RECURSIVE MaxSeq(_)
MaxSeq(s) == IF Len(s) = 1 THEN s[1] ELSE Max2(Head(s), MaxSeq(Tail(s)))

RECURSIVE MinSeq(_)
MinSeq(s) == IF Len(s) = 1 THEN s[1] ELSE Min2(Head(s), MinSeq(Tail(s)))

\* s[-k:] of the code: the last k elements (all of s when it is shorter)
LastN(s, k) == IF Len(s) <= k THEN s ELSE SubSeq(s, Len(s) - k + 1, Len(s))

---------------------------------------------------------------------------
(* Candles and the columns of the frame *)

Candle(h, l, c) == [open |-> c, high |-> h, low |-> l, close |-> c]

Highs(d)  == [i \in 1..Len(d) |-> d[i].high]
Lows(d)   == [i \in 1..Len(d) |-> d[i].low]
Closes(d) == [i \in 1..Len(d) |-> d[i].close]

Signal(name, type, conf, entry, stop, target, rr, descr) ==
    [pattern |-> name, type |-> type, confidence |-> conf, entry |-> entry,
     stop_loss |-> stop, target |-> target, risk_reward |-> rr,
     description |-> descr]

---------------------------------------------------------------------------
(* detect_double_top *)

RECURSIVE DoubleTopScan(_, _)
DoubleTopScan(highs, i) ==
    IF i >= Len(highs) - 2 THEN <<>>
    ELSE (IF /\ highs[i+1] > highs[i]   /\ highs[i+1] > highs[i+2]
             /\ highs[i+1] > highs[i-1] /\ highs[i+1] > highs[i+3]
          THEN <<[index |-> i, price |-> highs[i+1]]>>
          ELSE <<>>) \o DoubleTopScan(highs, i + 1)

\* the scan with >= against the next high: a plateau's first index is a peak
RECURSIVE DoubleTopScanNonStrict(_, _)
DoubleTopScanNonStrict(highs, i) ==
    IF i >= Len(highs) - 2 THEN <<>>
    ELSE (IF /\ highs[i+1] > highs[i]   /\ highs[i+1] >= highs[i+2]
             /\ highs[i+1] > highs[i-1] /\ highs[i+1] > highs[i+3]
          THEN <<[index |-> i, price |-> highs[i+1]]>>
          ELSE <<>>) \o DoubleTopScanNonStrict(highs, i + 1)

DoubleTopPeaksNonStrict(highs) == DoubleTopScanNonStrict(highs, 2)

DoubleTopPeaks(highs) == DoubleTopScan(highs, 2)

DoubleTopSignal(current_price, resistance) ==
    Signal("Double Top", "BEARISH", 75, current_price * 400,
           resistance * 101 * 4, current_price * 94 * 4, 25,
           "Bearish reversal pattern detected")

\* the pair loop leaving at its first signal
RECURSIVE DoubleTopPairsFirstOnly(_, _, _)
DoubleTopPairsFirstOnly(pk, closes, i) ==
    IF i >= Len(pk) - 1 THEN <<>>
    ELSE LET peak1 == pk[i+1]
             peak2 == pk[i+2]
             price_diff == Abs(peak1.price - peak2.price)
             sum_price  == peak1.price + peak2.price
             current_price == closes[Len(closes)]
             resistance == Max2(peak1.price, peak2.price)
         IN IF /\ price_diff * 2 * 100 < 2 * sum_price
               /\ current_price * 100 < resistance * 98
            THEN <<DoubleTopSignal(current_price, resistance)>>
            ELSE DoubleTopPairsFirstOnly(pk, closes, i + 1)

RECURSIVE DoubleTopPairs(_, _, _)
DoubleTopPairs(pk, closes, i) ==
    IF i >= Len(pk) - 1 THEN <<>>
    ELSE LET peak1 == pk[i+1]
             peak2 == pk[i+2]
             price_diff == Abs(peak1.price - peak2.price)
             sum_price  == peak1.price + peak2.price    \* avg_price * 2
             current_price == closes[Len(closes)]
             resistance == Max2(peak1.price, peak2.price)
         IN (IF /\ price_diff * 2 * 100 < 2 * sum_price
                /\ current_price * 100 < resistance * 98
             THEN <<DoubleTopSignal(current_price, resistance)>>
             ELSE <<>>) \o DoubleTopPairs(pk, closes, i + 1)

detect_double_top(d) ==
    IF Len(d) < 20 THEN <<>>
    ELSE DoubleTopPairs(DoubleTopPeaks(Highs(d)), Closes(d), 0)

---------------------------------------------------------------------------
(* detect_double_bottom *)

RECURSIVE DoubleBottomScan(_, _)
DoubleBottomScan(lows, i) ==
    IF i >= Len(lows) - 2 THEN <<>>
    ELSE (IF /\ lows[i+1] < lows[i]   /\ lows[i+1] < lows[i+2]
             /\ lows[i+1] < lows[i-1] /\ lows[i+1] < lows[i+3]
          THEN <<[index |-> i, price |-> lows[i+1]]>>
          ELSE <<>>) \o DoubleBottomScan(lows, i + 1)

DoubleBottomTroughs(lows) == DoubleBottomScan(lows, 2)

DoubleBottomSignal(current_price, support) ==
    Signal("Double Bottom", "BULLISH", 75, current_price * 400,
           support * 99 * 4, current_price * 106 * 4, 25,
           "Bullish reversal pattern detected")

RECURSIVE DoubleBottomPairs(_, _, _)
DoubleBottomPairs(tr, closes, i) ==
    IF i >= Len(tr) - 1 THEN <<>>
    ELSE LET trough1 == tr[i+1]
             trough2 == tr[i+2]
             price_diff == Abs(trough1.price - trough2.price)
             sum_price  == trough1.price + trough2.price    \* avg_price * 2
             current_price == closes[Len(closes)]
             support == Min2(trough1.price, trough2.price)
         IN (IF /\ price_diff * 2 * 100 < 2 * sum_price
                /\ current_price * 100 > support * 102
             THEN <<DoubleBottomSignal(current_price, support)>>
             ELSE <<>>) \o DoubleBottomPairs(tr, closes, i + 1)

detect_double_bottom(d) ==
    IF Len(d) < 20 THEN <<>>
    ELSE DoubleBottomPairs(DoubleBottomTroughs(Lows(d)), Closes(d), 0)

---------------------------------------------------------------------------
(* detect_head_shoulders *)

RECURSIVE HeadShouldersScan(_, _)
HeadShouldersScan(highs, i) ==
    IF i >= Len(highs) - 2 THEN <<>>
    ELSE (IF /\ highs[i+1] > highs[i]   /\ highs[i+1] > highs[i+2]
             /\ highs[i+1] > highs[i-1] /\ highs[i+1] > highs[i+3]
          THEN <<[index |-> i, price |-> highs[i+1]]>>
          ELSE <<>>) \o HeadShouldersScan(highs, i + 1)

HeadShouldersPeaks(highs) == HeadShouldersScan(highs, 2)

\* neckline = avg_shoulder * 0.98 = sum_shoulder * 49 / 100, so in units of
\* 1/400 the neckline is sum_shoulder * 196 and the target, neckline -
\* (head - neckline), is 2 * sum_shoulder * 196 - head * 400.
HeadShouldersSignal(current_price, head_price, sum_shoulder) ==
    Signal("Head and Shoulders", "BEARISH", 80, current_price * 400,
           head_price * 101 * 4,
           sum_shoulder * 196 - (head_price * 400 - sum_shoulder * 196), 20,
           "Strong bearish reversal pattern")

\* the triple loop without the test that the shoulders are within 3%
RECURSIVE HeadShouldersTriplesAnyShoulders(_, _, _)
HeadShouldersTriplesAnyShoulders(pk, closes, i) ==
    IF i >= Len(pk) - 2 THEN <<>>
    ELSE LET left_shoulder  == pk[i+1]
             head           == pk[i+2]
             right_shoulder == pk[i+3]
             sum_shoulder   == left_shoulder.price + right_shoulder.price
             current_price  == closes[Len(closes)]
         IN (IF /\ head.price > left_shoulder.price
                /\ head.price > right_shoulder.price
                /\ current_price * 400 < sum_shoulder * 196
             THEN <<HeadShouldersSignal(current_price, head.price, sum_shoulder)>>
             ELSE <<>>) \o HeadShouldersTriplesAnyShoulders(pk, closes, i + 1)

RECURSIVE HeadShouldersTriples(_, _, _)
HeadShouldersTriples(pk, closes, i) ==
    IF i >= Len(pk) - 2 THEN <<>>
    ELSE LET left_shoulder  == pk[i+1]
             head           == pk[i+2]
             right_shoulder == pk[i+3]
             shoulder_diff  == Abs(left_shoulder.price - right_shoulder.price)
             sum_shoulder   == left_shoulder.price + right_shoulder.price
             current_price  == closes[Len(closes)]
         IN (IF /\ head.price > left_shoulder.price
                /\ head.price > right_shoulder.price
                /\ shoulder_diff * 2 * 100 < 3 * sum_shoulder
                /\ current_price * 400 < sum_shoulder * 196
             THEN <<HeadShouldersSignal(current_price, head.price, sum_shoulder)>>
             ELSE <<>>) \o HeadShouldersTriples(pk, closes, i + 1)

detect_head_shoulders(d) ==
    IF Len(d) < 30 THEN <<>>
    ELSE HeadShouldersTriples(HeadShouldersPeaks(Highs(d)), Closes(d), 0)

---------------------------------------------------------------------------
(* detect_triangle *)

\* np.polyfit(range(n), y, 1)[0], the least-squares slope, is
\*   (n * sum(x*y) - sum(x) * sum(y)) / (n * sum(x*x) - sum(x)^2);
\* the two operators give its numerator and its (positive) denominator.
RECURSIVE SumXY(_, _)
SumXY(y, i) == IF i > Len(y) THEN 0 ELSE (i - 1) * y[i] + SumXY(y, i + 1)

SlopeNum(y) ==
    LET n == Len(y) IN n * SumXY(y, 1) - ((n * (n - 1)) \div 2) * SumSeq(y)

SlopeDen(y) ==
    LET n  == Len(y)
        sx == (n * (n - 1)) \div 2
        sxx == ((n - 1) * n * (2 * n - 1)) \div 6
    IN n * sxx - sx * sx

AscendingTriangleSignal(current_price, last_low) ==
    Signal("Ascending Triangle", "BULLISH", 65, current_price * 400,
           last_low * 98 * 4, current_price * 105 * 4, 20,
           "Bullish continuation pattern")

DescendingTriangleSignal(current_price, last_high) ==
    Signal("Descending Triangle", "BEARISH", 65, current_price * 400,
           last_high * 102 * 4, current_price * 95 * 4, 20,
           "Bearish continuation pattern")

\* the second test as an `if` of its own instead of an `elif`
TriangleBranchTwoIfs(high_num, low_num, den, current_price, last_low, last_high) ==
    (IF Abs(high_num) * 1000 < den /\ low_num > 0
     THEN <<AscendingTriangleSignal(current_price, last_low)>> ELSE <<>>)
    \o
    (IF Abs(low_num) * 1000 < den /\ high_num < 0
     THEN <<DescendingTriangleSignal(current_price, last_high)>> ELSE <<>>)

TriangleBranch(high_num, low_num, den, current_price, last_low, last_high) ==
    IF Abs(high_num) * 1000 < den /\ low_num > 0
    THEN <<AscendingTriangleSignal(current_price, last_low)>>
    ELSE IF Abs(low_num) * 1000 < den /\ high_num < 0
    THEN <<DescendingTriangleSignal(current_price, last_high)>>
    ELSE <<>>

detect_triangle(d) ==
    IF Len(d) < 20 THEN <<>>
    ELSE LET recent_highs == LastN(Highs(d), 20)
             recent_lows  == LastN(Lows(d), 20)
         IN TriangleBranch(SlopeNum(recent_highs), SlopeNum(recent_lows),
                           SlopeDen(recent_highs),
                           Closes(d)[Len(d)], recent_lows[20], recent_highs[20])

---------------------------------------------------------------------------
(* detect_flag *)

RECURSIVE SumSq(_)
SumSq(s) == IF s = <<>> THEN 0 ELSE Head(s) * Head(s) + SumSq(Tail(s))

\* np.std(c) / np.mean(c) < 0.02 for positive c: with n values of sum S and
\* sum of squares Q, std^2 = (n*Q - S^2) / n^2 and mean = S / n, so the test is
\* (n*Q - S^2) * 2500 < S^2.
LowVolatility(c) ==
    LET n == Len(c)
        S == SumSeq(c)
    IN (n * SumSq(c) - S * S) * 2500 < S * S

BullFlagSignal(current_price, consolidation_period) ==
    Signal("Bull Flag", "BULLISH", 70, current_price * 400,
           MinSeq(consolidation_period) * 98 * 4, current_price * 106 * 4, 25,
           "Bullish continuation pattern")

BearFlagSignal(current_price, consolidation_period) ==
    Signal("Bear Flag", "BEARISH", 70, current_price * 400,
           MaxSeq(consolidation_period) * 102 * 4, current_price * 94 * 4, 25,
           "Bearish continuation pattern")

\* price_change = (last - first) / first with first > 0:
\* abs(price_change) > 0.05 is Abs(last - first) * 100 > 5 * first, and
\* price_change > 0 is last > first.
\* the move compared with >= 0.05
StrongMoveInclusive(first, last) == Abs(last - first) * 100 >= 5 * first

StrongMove(first, last) == Abs(last - first) * 100 > 5 * first

detect_flag(d) ==
    IF Len(d) < 15 THEN <<>>
    ELSE LET closes == Closes(d)
             recent_closes == LastN(closes, 15)
             consolidation_period == LastN(recent_closes, 8)
             current_price == closes[Len(closes)]
         IN IF StrongMove(recent_closes[1], recent_closes[15])
               /\ LowVolatility(consolidation_period)
            THEN IF recent_closes[15] > recent_closes[1]
                 THEN <<BullFlagSignal(current_price, consolidation_period)>>
                 ELSE <<BearFlagSignal(current_price, consolidation_period)>>
            ELSE <<>>

---------------------------------------------------------------------------
(* detect_support_resistance *)

\* the k-th smallest element of s (k from 1), duplicates counted
KthSmallest(s, k) ==
    CHOOSE v \in {s[i] : i \in 1..Len(s)} :
        /\ Cardinality({i \in 1..Len(s) : s[i] < v}) < k
        /\ Cardinality({i \in 1..Len(s) : s[i] <= v}) >= k

\* np.percentile(s, q), linear interpolation, times 4: the virtual index is
\* q/100 * (n-1); for n = 20 and q in {25, 75} it is a multiple of 1/4.
\* the percentile without interpolation: the value at the lower index
Percentile4Lower(s, q) ==
    4 * KthSmallest(s, ((q * (Len(s) - 1)) \div 100) + 1)

Percentile4(s, q) ==
    LET idx4 == (q * (Len(s) - 1)) \div 25   \* 4 * virtual index
        lo   == idx4 \div 4                  \* 0-based
        frac == idx4 % 4
    IN IF frac = 0 THEN 4 * KthSmallest(s, lo + 1)
       ELSE (4 - frac) * KthSmallest(s, lo + 1) + frac * KthSmallest(s, lo + 2)

\* f'{level:.2f}' of a level held in quarters
Fmt2(level4) ==
    ToString(level4 \div 4) \o "." \o
    (CASE level4 % 4 = 0 -> "00" [] level4 % 4 = 1 -> "25"
       [] level4 % 4 = 2 -> "50" [] OTHER -> "75")

SupportSignal(current_price, support4) ==
    Signal("Support Level", "BULLISH", 60, current_price * 400,
           support4 * 98, current_price * 104 * 4, 20,
           "Price bouncing off support at " \o Fmt2(support4))

ResistanceSignal(current_price, resistance4) ==
    Signal("Resistance Level", "BEARISH", 60, current_price * 400,
           resistance4 * 102, current_price * 96 * 4, 20,
           "Price rejecting resistance at " \o Fmt2(resistance4))

\* abs(current_price - level) / level < 0.02, level = level4 / 4 > 0
NearLevel(current_price, level4) ==
    Abs(4 * current_price - level4) * 100 < 2 * level4

detect_support_resistance(d) ==
    IF Len(d) < 20 THEN <<>>
    ELSE LET current_price == Closes(d)[Len(d)]
             support4    == Percentile4(LastN(Lows(d), 20), 25)
             resistance4 == Percentile4(LastN(Highs(d), 20), 75)
         IN (IF NearLevel(current_price, support4)
             THEN <<SupportSignal(current_price, support4)>> ELSE <<>>)
            \o
            (IF NearLevel(current_price, resistance4)
             THEN <<ResistanceSignal(current_price, resistance4)>> ELSE <<>>)

---------------------------------------------------------------------------
(* detect_patterns as one call, with the detector's field as a parameter *)

\* the floor compared one too low
TooShortOffByOne(d, mp) == Len(d) < mp - 1

TooShort(d, mp) == Len(d) < mp

detect_patterns(d, mp) ==
    IF TooShort(d, mp) THEN <<>>
    ELSE detect_double_top(d) \o detect_double_bottom(d)
         \o detect_head_shoulders(d) \o detect_triangle(d)
         \o detect_flag(d) \o detect_support_resistance(d)

---------------------------------------------------------------------------
(* The candle lists a fetch returns.  A list is built of blocks of five     *)
(* candles around a base candle (high 102, low 98, close 100); every candle *)
(* has positive prices and low <= open, close <= high.                      *)

MaxEvents == 3
ShortBlocks == 4
LongBlocks == 6

FlatBlock == [i \in 1..5 |-> Candle(102, 98, 100)]
PeakBlock(h) == [i \in 1..5 |-> Candle(IF i = 3 THEN h ELSE 102, 98, 100)]
TroughBlock(l) == [i \in 1..5 |-> Candle(102, IF i = 3 THEN l ELSE 98, 100)]
HigherLowBlock == [i \in 1..5 |-> Candle(102, 99, 100)]
LowerHighBlock == [i \in 1..5 |-> Candle(101, 98, 100)]
NudgeHighBlock == [i \in 1..5 |-> Candle(IF i = 5 THEN 103 ELSE 102, 98, 100)]
NudgeLowBlock == [i \in 1..5 |-> Candle(102, IF i = 1 THEN 99 ELSE 98, 100)]
BinaryBlocks == {[i \in 1..5 |-> Candle(h[i], 98, 100)] : h \in [1..5 -> {102, 110}]}

EventBlocks == {PeakBlock(110), PeakBlock(113), PeakBlock(118), PeakBlock(120),
                TroughBlock(90)}
TrendBlocks == {FlatBlock, HigherLowBlock, LowerHighBlock, NudgeHighBlock,
                NudgeLowBlock}
LastCloses == {94, 100, 105, 108}
FlagCloses == {60, 94, 95, 97, 100, 105, 106, 108}

RECURSIVE Flatten(_)
Flatten(bs) == IF bs = <<>> THEN <<>> ELSE Head(bs) \o Flatten(Tail(bs))

\* bs followed by flat blocks, k blocks in all
Pad(bs, k) == bs \o [i \in 1..(k - Len(bs)) |-> FlatBlock]

\* d without its last k candles
DropLast(d, k) == SubSeq(d, 1, Len(d) - k)

\* d with the close of its last candle set to c
SetLastClose(d, c) ==
    IF d = <<>> THEN d
    ELSE [d EXCEPT ![Len(d)] =
             Candle(Max2(@.high, c), Min2(@.low, c), c)]

\* highs rising by one up to index m (0-based), falling by one after it
UnimodalCandles(n, m) ==
    [i \in 1..n |-> LET h == 150 - Abs((i - 1) - m) IN Candle(h, h - 4, h - 2)]

EventSeqs == UNION {[1..n -> EventBlocks] : n \in 0..MaxEvents}

PeakInputs ==
    {SetLastClose(DropLast(Flatten(Pad(ev, k)), cut), c) :
        ev \in EventSeqs, k \in {ShortBlocks, LongBlocks},
        cut \in {0, 1}, c \in LastCloses}

TrendInputs == {Flatten(bs) : bs \in [1..ShortBlocks -> TrendBlocks]}

CloseInputs ==
    {SetLastClose(Flatten(Pad(<<>>, k)), c) :
        k \in {ShortBlocks, LongBlocks}, c \in FlagCloses}

EdgeInputs ==
    {Flatten(Pad(<<b1, b2>>, ShortBlocks)) : b1 \in BinaryBlocks, b2 \in BinaryBlocks}
    \cup
    {Flatten(<<FlatBlock, FlatBlock, FlatBlock, b>>) : b \in BinaryBlocks}

UnimodalInputs ==
    {UnimodalCandles(n, m) : n \in {5 * ShortBlocks, 5 * LongBlocks}, m \in 0..(5 * LongBlocks - 1)}

\* highs and lows moving by dh and dl a candle, the close between them
Ramp(n, dh, dl) ==
    [i \in 1..n |-> [open |-> 100, high |-> 150 + dh * i, low |-> 50 + dl * i,
                     close |-> 100]]

RampInputs ==
    {Ramp(n, dh, dl) : n \in {5 * ShortBlocks, 5 * LongBlocks},
                       dh \in {-1, 0, 1}, dl \in {-1, 0, 1}}

Inputs ==
    {<<>>} \cup PeakInputs \cup TrendInputs \cup CloseInputs \cup EdgeInputs
    \cup UnimodalInputs \cup RampInputs

\* the few lists the threads of the live specification fetch
LiveInputs ==
    {<<>>,
     DropLast(Flatten(Pad(<<PeakBlock(110), PeakBlock(110)>>, ShortBlocks)), 1),
     SetLastClose(Flatten(Pad(<<PeakBlock(110), PeakBlock(110)>>, ShortBlocks)), 105),
     SetLastClose(Flatten(Pad(<<PeakBlock(110), PeakBlock(120), PeakBlock(113)>>,
                              LongBlocks)), 94)}

---------------------------------------------------------------------------
(* The threads.  pc values:                                                 *)
(*   off            a polling thread not started yet                        *)
(*   fetch          before get_crypto_data / get_forex_data                 *)
(*   call           at the entry of detect_patterns                         *)
(*   dt_scan .. sr  inside detect_patterns, before the named statement      *)
(*   return         at `return patterns`                                    *)
(*   respond        detect_patterns has returned; before jsonify / emit     *)

Init ==
    /\ min_periods = 20
    /\ pc = [t \in Threads |-> IF t = "handler" THEN "fetch" ELSE "off"]
    /\ data = [t \in Threads |-> <<>>]
    /\ peaks = [t \in Threads |-> <<>>]
    /\ patterns = [t \in Threads |-> <<>>]
    /\ ret = [t \in Threads |-> <<>>]

\* the list kept on the shared detector instead of in the call: every thread
\* sees what thread t appended
PatternsSharedList(ps, u, sigs) == [t \in Threads |-> ps[u] \o sigs]

\* the new signals put in front of the list
PatternsPrepended(ps, t, sigs) == [ps EXCEPT ![t] = sigs \o @]

\* patterns.extend(sigs) on the local list of thread t
PatternsAfterExtend(ps, t, sigs) == [ps EXCEPT ![t] = @ \o sigs]

\* handle_start_live_feed -> start_live_updates: a polling thread starts
StartLiveUpdates(t) ==
    /\ t \in Pollers
    /\ pc[t] = "off"
    /\ pc' = [pc EXCEPT ![t] = "fetch"]
    /\ UNCHANGED <<min_periods, data, peaks, patterns, ret>>

\* the fetch returns d.  The handler calls detect_patterns on whatever it got;
\* a polling thread only `if data:` and otherwise sleeps and fetches again.
Fetch(t, d) ==
    /\ pc[t] = "fetch"
    /\ data' = [data EXCEPT ![t] = d]
    /\ pc' = [pc EXCEPT ![t] = IF t \in Pollers /\ d = <<>> THEN "fetch" ELSE "call"]
    /\ UNCHANGED <<min_periods, peaks, patterns, ret>>

\* detect_patterns, lines 13-27: the length floor, then the frame and the
\* empty local list (the indicator columns are read by no detector)
Call(t) ==
    /\ pc[t] = "call"
    /\ IF TooShort(data[t], min_periods)
       THEN /\ ret' = [ret EXCEPT ![t] = <<>>]
            /\ pc' = [pc EXCEPT ![t] = "respond"]
            /\ UNCHANGED patterns
       ELSE /\ patterns' = [patterns EXCEPT ![t] = <<>>]
            /\ pc' = [pc EXCEPT ![t] = "dt_scan"]
            /\ UNCHANGED ret
    /\ UNCHANGED <<min_periods, data, peaks>>

DoubleTopFindPeaks(t) ==
    /\ pc[t] = "dt_scan"
    /\ IF Len(data[t]) < 20
       THEN /\ pc' = [pc EXCEPT ![t] = "db_scan"]
            /\ UNCHANGED peaks
       ELSE /\ peaks' = [peaks EXCEPT ![t] = DoubleTopPeaks(Highs(data[t]))]
            /\ pc' = [pc EXCEPT ![t] = "dt_pairs"]
    /\ UNCHANGED <<min_periods, data, patterns, ret>>

DoubleTopCheck(t) ==
    /\ pc[t] = "dt_pairs"
    /\ patterns' = PatternsAfterExtend(patterns, t,
                       DoubleTopPairs(peaks[t], Closes(data[t]), 0))
    /\ peaks' = [peaks EXCEPT ![t] = <<>>]
    /\ pc' = [pc EXCEPT ![t] = "db_scan"]
    /\ UNCHANGED <<min_periods, data, ret>>

DoubleBottomFindTroughs(t) ==
    /\ pc[t] = "db_scan"
    /\ IF Len(data[t]) < 20
       THEN /\ pc' = [pc EXCEPT ![t] = "hs_scan"]
            /\ UNCHANGED peaks
       ELSE /\ peaks' = [peaks EXCEPT ![t] = DoubleBottomTroughs(Lows(data[t]))]
            /\ pc' = [pc EXCEPT ![t] = "db_pairs"]
    /\ UNCHANGED <<min_periods, data, patterns, ret>>

DoubleBottomCheck(t) ==
    /\ pc[t] = "db_pairs"
    /\ patterns' = PatternsAfterExtend(patterns, t,
                       DoubleBottomPairs(peaks[t], Closes(data[t]), 0))
    /\ peaks' = [peaks EXCEPT ![t] = <<>>]
    /\ pc' = [pc EXCEPT ![t] = "hs_scan"]
    /\ UNCHANGED <<min_periods, data, ret>>

HeadShouldersFindPeaks(t) ==
    /\ pc[t] = "hs_scan"
    /\ IF Len(data[t]) < 30
       THEN /\ pc' = [pc EXCEPT ![t] = "triangle"]
            /\ UNCHANGED peaks
       ELSE /\ peaks' = [peaks EXCEPT ![t] = HeadShouldersPeaks(Highs(data[t]))]
            /\ pc' = [pc EXCEPT ![t] = "hs_triples"]
    /\ UNCHANGED <<min_periods, data, patterns, ret>>

HeadShouldersCheck(t) ==
    /\ pc[t] = "hs_triples"
    /\ patterns' = PatternsAfterExtend(patterns, t,
                       HeadShouldersTriples(peaks[t], Closes(data[t]), 0))
    /\ peaks' = [peaks EXCEPT ![t] = <<>>]
    /\ pc' = [pc EXCEPT ![t] = "triangle"]
    /\ UNCHANGED <<min_periods, data, ret>>

Triangle(t) ==
    /\ pc[t] = "triangle"
    /\ patterns' = PatternsAfterExtend(patterns, t, detect_triangle(data[t]))
    /\ pc' = [pc EXCEPT ![t] = "flag"]
    /\ UNCHANGED <<min_periods, data, peaks, ret>>

Flag(t) ==
    /\ pc[t] = "flag"
    /\ patterns' = PatternsAfterExtend(patterns, t, detect_flag(data[t]))
    /\ pc' = [pc EXCEPT ![t] = "sr"]
    /\ UNCHANGED <<min_periods, data, peaks, ret>>

SupportResistance(t) ==
    /\ pc[t] = "sr"
    /\ patterns' = PatternsAfterExtend(patterns, t,
                       detect_support_resistance(data[t]))
    /\ pc' = [pc EXCEPT ![t] = "return"]
    /\ UNCHANGED <<min_periods, data, peaks, ret>>

\* `return patterns`
ReturnPatterns(t) ==
    /\ pc[t] = "return"
    /\ ret' = [ret EXCEPT ![t] = patterns[t]]
    /\ patterns' = [patterns EXCEPT ![t] = <<>>]
    /\ pc' = [pc EXCEPT ![t] = "respond"]
    /\ UNCHANGED <<min_periods, data, peaks>>

\* jsonify(patterns) of the handler, socketio.emit of a polling thread (and
\* its sleep): the locals are dropped and the thread is ready to fetch again
Respond(t) ==
    /\ pc[t] = "respond"
    /\ data' = [data EXCEPT ![t] = <<>>]
    /\ ret' = [ret EXCEPT ![t] = <<>>]
    /\ pc' = [pc EXCEPT ![t] = "fetch"]
    /\ UNCHANGED <<min_periods, peaks, patterns>>

Step(t) ==
    \/ Call(t)
    \/ DoubleTopFindPeaks(t)
    \/ DoubleTopCheck(t)
    \/ DoubleBottomFindTroughs(t)
    \/ DoubleBottomCheck(t)
    \/ HeadShouldersFindPeaks(t)
    \/ HeadShouldersCheck(t)
    \/ Triangle(t)
    \/ Flag(t)
    \/ SupportResistance(t)
    \/ ReturnPatterns(t)
    \/ Respond(t)

\* one request handler, any candle list of Inputs
Next ==
    \/ \E d \in Inputs : Fetch("handler", d)
    \/ Step("handler")

Spec == Init /\ [][Next]_vars

\* the handler and the polling threads, interleaved statement by statement
NextLive ==
    \/ \E t \in Pollers : StartLiveUpdates(t)
    \/ \E t \in Threads, d \in LiveInputs : Fetch(t, d)
    \/ \E t \in Threads : Step(t)

SpecLive == Init /\ [][NextLive]_vars

---------------------------------------------------------------------------
(* Properties.  A call has returned when its thread is at "respond": then   *)
(* data[t] is the list it was called on and ret[t] what it returned.        *)

Returned(t) == pc[t] = "respond"
InDetector(t) ==
    pc[t] \in {"dt_scan", "dt_pairs", "db_scan", "db_pairs", "hs_scan",
               "hs_triples", "triangle", "flag", "sr", "return"}

LastClose(d) == d[Len(d)].close
Named(sigs, names) == SelectSeq(sigs, LAMBDA s : s.pattern \in names)

\* C1: a candle list of fewer than 20 candles (the empty list of a failed
\* fetch included) never enters a detector, and detect_patterns returns the
\* empty list for it, whatever its candles are.
C1_ShortInputReturnsEmpty ==
    \A t \in Threads :
        Len(data[t]) < 20 =>
            /\ ~InDetector(t)
            /\ patterns[t] = <<>>
            /\ Returned(t) => ret[t] = <<>>

\* a call on 19 candles that end in a flag has returned
C1_Witness ==
    \E t \in Threads :
        /\ Returned(t)
        /\ Len(data[t]) = 19
        /\ detect_flag(data[t]) # <<>>
        /\ ret[t] = <<>>

\* C2: however the calls of the handler and of the polling threads on the one
\* shared detector interleave, every call returns the list of an isolated call
\* on its input, calls on the same input return the same list, and the
\* detector's field min_periods stays 20.
C2_CallsAreIsolated ==
    /\ min_periods = 20
    /\ \A t \in Threads :
           Returned(t) => ret[t] = detect_patterns(data[t], 20)
    /\ \A t, u \in Threads :
           Returned(t) /\ Returned(u) /\ data[t] = data[u] => ret[t] = ret[u]

\* two calls on the same 20 candles have returned the same signals while a
\* third thread is inside a call on another list
C2_Witness ==
    \E t, u, v \in Threads :
        /\ t # u /\ Returned(t) /\ Returned(u)
        /\ data[t] = data[u] /\ ret[t] # <<>>
        /\ InDetector(v) /\ data[v] # data[t] /\ patterns[v] # <<>>

\* C3: for at least 20 candles the returned list is the outputs of the Double
\* Top, Double Bottom, Head and Shoulders, Triangle, Flag and Support /
\* Resistance detectors on that list, concatenated in this order.
C3_ConcatenationInOrder ==
    \A t \in Threads :
        Returned(t) /\ Len(data[t]) >= 20 =>
            ret[t] = detect_double_top(data[t]) \o detect_double_bottom(data[t])
                     \o detect_head_shoulders(data[t]) \o detect_triangle(data[t])
                     \o detect_flag(data[t]) \o detect_support_resistance(data[t])

\* a returned list with the signals of three detectors, a BULLISH signal
\* between two BEARISH ones
C3_Witness ==
    \E t \in Threads :
        /\ Returned(t)
        /\ Cardinality({k \in 1..6 :
               <<detect_double_top(data[t]), detect_double_bottom(data[t]),
                 detect_head_shoulders(data[t]), detect_triangle(data[t]),
                 detect_flag(data[t]), detect_support_resistance(data[t])>>[k]
               # <<>>}) >= 3
        /\ \E i, j, k \in 1..Len(ret[t]) :
               /\ i < j /\ j < k
               /\ ret[t][i].type = "BEARISH" /\ ret[t][j].type = "BULLISH"
               /\ ret[t][k].type = "BEARISH"

---------------------------------------------------------------------------
(* Extrema (C4).  dir is 1 for peaks and -1 for troughs; i is 0-based. *)

IsStrictExtremum(s, i, dir) ==
    /\ 2 <= i /\ i <= Len(s) - 3
    /\ \A k \in {-2, -1, 1, 2} : dir * s[i + 1] > dir * s[i + 1 + k]

IndexSet(list) == {list[k].index : k \in 1..Len(list)}

\* the list holds, in index order, exactly the strict extrema of s
ExtremaRule(list, s, dir) ==
    /\ \A i \in 0..(Len(s) - 1) : i \in IndexSet(list) <=> IsStrictExtremum(s, i, dir)
    /\ \A k \in 1..Len(list) : list[k].price = s[list[k].index + 1]
    /\ \A k \in 1..(Len(list) - 1) : list[k].index < list[k + 1].index
    /\ IndexSet(list) \cap {0, 1, Len(s) - 2, Len(s) - 1} = {}
    /\ \A k \in 1..Len(list) : \A j \in {-2, -1, 1, 2} :
           s[list[k].index + 1 + j] # list[k].price

\* s rises strictly up to index m and falls strictly after it (dir = 1), or
\* falls and then rises (dir = -1)
StrictlyUnimodal(s, m, dir) ==
    \A i \in 1..(Len(s) - 1) :
        IF i <= m THEN dir * s[i] < dir * s[i + 1] ELSE dir * s[i] > dir * s[i + 1]

OneExtremumAt(list, s, m) == list = <<[index |-> m, price |-> s[m + 1]]>>

UnimodalAnywhere(list, s, dir) ==
    \A m \in 0..(Len(s) - 1) :
        StrictlyUnimodal(s, m, dir) => OneExtremumAt(list, s, m)

UnimodalInterior(list, s, dir) ==
    \A m \in 0..(Len(s) - 1) :
        StrictlyUnimodal(s, m, dir) =>
            IF 2 <= m /\ m <= Len(s) - 3 THEN OneExtremumAt(list, s, m)
            ELSE list = <<>>

UnimodalRule(list, s, dir, anywhere) ==
    IF anywhere THEN UnimodalAnywhere(list, s, dir) ELSE UnimodalInterior(list, s, dir)

\* the detectors' lists when they have just been built
ExtremaBuilt(anywhere) ==
    \A t \in Threads :
        /\ pc[t] = "dt_pairs" =>
               /\ ExtremaRule(peaks[t], Highs(data[t]), 1)
               /\ UnimodalRule(peaks[t], Highs(data[t]), 1, anywhere)
        /\ pc[t] = "db_pairs" =>
               /\ ExtremaRule(peaks[t], Lows(data[t]), -1)
               /\ UnimodalRule(peaks[t], Lows(data[t]), -1, anywhere)
        /\ pc[t] = "hs_triples" =>
               /\ ExtremaRule(peaks[t], Highs(data[t]), 1)
               /\ UnimodalRule(peaks[t], Highs(data[t]), 1, anywhere)
               /\ peaks[t] = DoubleTopPeaks(Highs(data[t]))

\* C4 as stated: index i is a peak (trough) iff 2 <= i <= len-3 and the value
\* is strictly above (below) its four neighbours, so never at the first or
\* last two indices and never with a tie; a strictly unimodal series yields
\* exactly one peak, at its maximum; the Head and Shoulders peaks are the
\* Double Top peaks.
C4_Original == ExtremaBuilt(TRUE)

\* C4 amended: as C4_Original, but a strictly unimodal series yields one peak
\* at its maximum only when the maximum is at an index in 2..len-3, and no
\* peak when it is at one of the first or last two indices.
C4_ExtremaRule == ExtremaBuilt(FALSE)

\* the Double Top detector has built the peaks of a strictly unimodal series
\* of highs with its maximum inside: one peak
C4_Witness ==
    \E t \in Threads :
        /\ pc[t] = "dt_pairs"
        /\ \E m \in 2..(Len(data[t]) - 3) : StrictlyUnimodal(Highs(data[t]), m, 1)
        /\ Len(peaks[t]) = 1

---------------------------------------------------------------------------
(* Double Top (C5) and Head and Shoulders (C6), stated over the strict      *)
(* peaks of the highs taken in index order.                                 *)

\* the n-th smallest member of a set of integers (n from 1)
NthOf(S, n) == CHOOSE x \in S : Cardinality({y \in S : y < x}) = n - 1

PeakIndices(s) == {i \in 0..(Len(s) - 1) : IsStrictExtremum(s, i, 1)}

PeakPrices(s) ==
    [k \in 1..Cardinality(PeakIndices(s)) |-> s[NthOf(PeakIndices(s), k) + 1]]

\* |p1 - p2| / ((p1 + p2) / 2) < 0.02  and  c < max(p1, p2) * 0.98
DoubleTopPair(p1, p2, c) ==
    /\ 100 * Abs(p1 - p2) < p1 + p2
    /\ 100 * c < 98 * Max2(p1, p2)

\* C5: for at least 20 candles the "Double Top" signals are, in index order,
\* one for each adjacent pair of peaks (p1, p2) with |p1-p2| / ((p1+p2)/2) <
\* 0.02 and last close < max(p1,p2) * 0.98, each BEARISH with confidence 75,
\* entry = last close, stop_loss = max(p1,p2) * 1.01, target = last close *
\* 0.94 and risk_reward 2.5, nothing deduplicated; two peaks of 110 and a last
\* close of 105 give one signal with stop_loss 111.1 and target 98.7.
C5_DoubleTopSignals ==
    \A t \in Threads :
        Returned(t) /\ Len(data[t]) >= 20 =>
            LET P == PeakPrices(Highs(data[t]))
                c == LastClose(data[t])
                Q == {k \in 1..(Len(P) - 1) : DoubleTopPair(P[k], P[k + 1], c)}
                sigs == Named(ret[t], {"Double Top"})
            IN /\ Len(sigs) = Cardinality(Q)
               /\ \A n \in 1..Len(sigs) :
                      LET k == NthOf(Q, n)
                          top == Max2(P[k], P[k + 1])
                      IN /\ sigs[n].type = "BEARISH"
                         /\ sigs[n].confidence = 75
                         /\ sigs[n].entry = c * 400
                         /\ sigs[n].stop_loss * 100 = top * 101 * 400
                         /\ sigs[n].target * 100 = c * 94 * 400
                         /\ sigs[n].risk_reward = 25
               /\ P = <<110, 110>> /\ c = 105 =>
                      /\ Len(sigs) = 1
                      /\ sigs[1].stop_loss * 10 = 1111 * 400
                      /\ sigs[1].target * 10 = 987 * 400

\* three peaks, both adjacent pairs qualify: two Double Top signals returned
C5_Witness ==
    \E t \in Threads :
        /\ Returned(t)
        /\ Len(PeakPrices(Highs(data[t]))) = 3
        /\ Len(Named(ret[t], {"Double Top"})) = 2

\* head above both shoulders, |l - r| / ((l + r) / 2) < 0.03, and
\* c < neckline = ((l + r) / 2) * 0.98
HeadShouldersTriple(l, h, r, c) ==
    /\ h > l /\ h > r
    /\ 200 * Abs(l - r) < 3 * (l + r)
    /\ 100 * c < 49 * (l + r)

\* C6: below 30 candles no "Head and Shoulders" signal; from 30 candles on
\* the signals are, in index order, one for each consecutive triple of peaks
\* (left, head, right) with head > left, head > right, |left-right| /
\* ((left+right)/2) < 0.03 and last close < neckline = ((left+right)/2) * 0.98,
\* and for no other triple; each BEARISH with confidence 80, stop_loss = head *
\* 1.01, target = neckline - (head - neckline) and risk_reward 2.0.
C6_HeadShouldersSignals ==
    \A t \in Threads :
        Returned(t) =>
            LET P == PeakPrices(Highs(data[t]))
                c == LastClose(data[t])
                Q == {k \in 1..(Len(P) - 2) :
                         HeadShouldersTriple(P[k], P[k + 1], P[k + 2], c)}
                sigs == Named(ret[t], {"Head and Shoulders"})
            IN IF Len(data[t]) < 30 THEN sigs = <<>>
               ELSE /\ Len(sigs) = Cardinality(Q)
                    /\ \A n \in 1..Len(sigs) :
                           LET k == NthOf(Q, n)
                               neckline100 == 49 * (P[k] + P[k + 2])
                           IN /\ sigs[n].type = "BEARISH"
                              /\ sigs[n].confidence = 80
                              /\ sigs[n].entry = c * 400
                              /\ sigs[n].stop_loss * 100 = P[k + 1] * 101 * 400
                              /\ sigs[n].target =
                                     4 * (neckline100 - (100 * P[k + 1] - neckline100))
                              /\ sigs[n].risk_reward = 20

\* 30 candles with a qualifying triple of peaks: the signal is returned
C6_Witness ==
    \E t \in Threads :
        /\ Returned(t)
        /\ Len(data[t]) = 30
        /\ Len(Named(ret[t], {"Head and Shoulders"})) = 1

---------------------------------------------------------------------------
(* Triangle (C7) *)

\* The least-squares slope of y over x = 0..n-1 is Cov2(y) * 2 / Var4(n) with
\*   Cov2(y) = sum of (2x - (n-1)) * y[x],   Var4(n) = sum of (2x - (n-1))^2.
RECURSIVE Cov2From(_, _)
Cov2From(y, i) ==
    IF i > Len(y) THEN 0
    ELSE (2 * (i - 1) - (Len(y) - 1)) * y[i] + Cov2From(y, i + 1)

Cov2(y) == Cov2From(y, 1)

RECURSIVE Var4(_)
Var4(n) == IF n <= 1 THEN 0 ELSE Var4(n - 2) + 2 * (n - 1) * (n - 1)

SlopeFlat(y) == 2000 * Abs(Cov2(y)) < Var4(Len(y))   \* |slope| < 0.001
SlopeUp(y)   == Cov2(y) > 0
SlopeDown(y) == Cov2(y) < 0

AscendingCase(d) ==
    SlopeFlat(LastN(Highs(d), 20)) /\ SlopeUp(LastN(Lows(d), 20))
DescendingCase(d) ==
    SlopeFlat(LastN(Lows(d), 20)) /\ SlopeDown(LastN(Highs(d), 20))

AllEqual(y) == \A i \in 1..Len(y) : y[i] = y[1]
StrictlyRising(y) == \A i \in 1..(Len(y) - 1) : y[i] < y[i + 1]

---------------------------------------------------------------------------
(* Flag (C8) *)

RECURSIVE SumSqDev(_, _, _)
SumSqDev(c, S, i) ==
    IF i > Len(c) THEN 0
    ELSE (Len(c) * c[i] - S) * (Len(c) * c[i] - S) + SumSqDev(c, S, i + 1)

\* population stddev / mean < 0.02: with n values of sum S the variance is
\* sum((n*x - S)^2) / n^3 and the mean S / n
TightCloses(c) == 2500 * SumSqDev(c, SumSeq(c), 1) < Len(c) * SumSeq(c) * SumSeq(c)

\* C8: the Flag detector emits at most one signal, and one exactly when
\* price_change = (close[-1] - close[-15]) / close[-15] has |price_change| >
\* 0.05 (exactly 5% does not qualify) and the last 8 closes have population
\* stddev / mean < 0.02: "Bull Flag" (BULLISH, stop_loss = min of the 8 closes
\* * 0.98, target = last close * 1.06) if price_change > 0, else "Bear Flag"
\* (BEARISH, stop_loss = max of the 8 closes * 1.02, target = last close *
\* 0.94), both with confidence 70 and risk_reward 2.5.
C8_FlagSignal ==
    \A t \in Threads :
        Returned(t) /\ Len(data[t]) >= 20 =>
            LET c == Closes(data[t])
                first == c[Len(c) - 14]
                last  == c[Len(c)]
                eight == LastN(c, 8)
                flags == Named(ret[t], {"Bull Flag", "Bear Flag"})
                lowest  == CHOOSE x \in {eight[i] : i \in 1..8} :
                               \A i \in 1..8 : x <= eight[i]
                highest == CHOOSE x \in {eight[i] : i \in 1..8} :
                               \A i \in 1..8 : x >= eight[i]
            IN /\ Len(flags) <= 1
               /\ Len(flags) = 1 <=>
                      (100 * Abs(last - first) > 5 * first /\ TightCloses(eight))
               /\ 100 * Abs(last - first) = 5 * first => flags = <<>>
               /\ flags # <<>> =>
                      /\ flags[1].confidence = 70
                      /\ flags[1].risk_reward = 25
                      /\ flags[1].entry = last * 400
                      /\ IF last > first
                         THEN /\ flags[1].pattern = "Bull Flag"
                              /\ flags[1].type = "BULLISH"
                              /\ flags[1].stop_loss * 100 = lowest * 98 * 400
                              /\ flags[1].target * 100 = last * 106 * 400
                         ELSE /\ flags[1].pattern = "Bear Flag"
                              /\ flags[1].type = "BEARISH"
                              /\ flags[1].stop_loss * 100 = highest * 102 * 400
                              /\ flags[1].target * 100 = last * 94 * 400

\* a move of +6% into a tight consolidation: the Bull Flag is returned
C8_Witness ==
    \E t \in Threads :
        /\ Returned(t) /\ Len(data[t]) >= 20
        /\ Named(ret[t], {"Bull Flag"}) # <<>>
        /\ LastN(Closes(data[t]), 8)[1] < LastClose(data[t])

---------------------------------------------------------------------------
(* Support / Resistance (C9) *)

RECURSIVE InsertSorted(_, _)
InsertSorted(x, s) ==
    IF s = <<>> THEN <<x>>
    ELSE IF x <= Head(s) THEN <<x>> \o s
    ELSE <<Head(s)>> \o InsertSorted(x, Tail(s))

RECURSIVE SortAsc(_)
SortAsc(s) == IF s = <<>> THEN <<>> ELSE InsertSorted(Head(s), SortAsc(Tail(s)))

\* of 20 values sorted ascending, v[0..19]: the 25th percentile is at virtual
\* index 4.75, v[4] + 0.75 * (v[5] - v[4]); the 75th at 14.25, v[14] + 0.25 *
\* (v[15] - v[14]).  Both times 4.
Support4(d) ==
    LET v == SortAsc(LastN(Lows(d), 20)) IN v[5] + 3 * v[6]
Resistance4(d) ==
    LET v == SortAsc(LastN(Highs(d), 20)) IN 3 * v[15] + v[16]

\* |c - level| / level < 0.02, level = level4 / 4
Within2Percent(c, level4) == 100 * Abs(4 * c - level4) < 2 * level4

\* C9: "Support Level" is emitted iff the last close is within 2% of the 25th
\* percentile of the last 20 lows, "Resistance Level" iff it is within 2% of
\* the 75th percentile of the last 20 highs, independently of each other, the
\* Support Level first; both are emitted whenever both levels are within 2%.
C9_SupportResistance ==
    \A t \in Threads :
        Returned(t) /\ Len(data[t]) >= 20 =>
            LET d == data[t]
                c == LastClose(d)
                sr == Named(ret[t], {"Support Level", "Resistance Level"})
                sup == Within2Percent(c, Support4(d))
                res == Within2Percent(c, Resistance4(d))
            IN /\ [i \in 1..Len(sr) |-> sr[i].pattern] =
                      (IF sup THEN <<"Support Level">> ELSE <<>>)
                      \o (IF res THEN <<"Resistance Level">> ELSE <<>>)
               /\ \A i \in 1..Len(sr) :
                      /\ sr[i].entry = c * 400
                      /\ sr[i].pattern = "Support Level" =>
                             sr[i].stop_loss * 100 = Support4(d) * 98 * 100
                      /\ sr[i].pattern = "Resistance Level" =>
                             sr[i].stop_loss * 100 = Resistance4(d) * 102 * 100

\* both levels are within 2% of the last close, the support level is an
\* interpolated one, and both signals are returned, Support Level first
C9_Witness ==
    \E t \in Threads :
        /\ Returned(t) /\ Len(data[t]) >= 20
        /\ Support4(data[t]) % 4 # 0
        /\ \E i \in 1..(Len(ret[t]) - 1) :
               /\ ret[t][i].pattern = "Support Level"
               /\ ret[t][i + 1].pattern = "Resistance Level"

---------------------------------------------------------------------------
(* Trade levels (C10) *)

ValidCandles(d) ==
    \A i \in 1..Len(d) :
        /\ d[i].low > 0
        /\ d[i].low <= d[i].open /\ d[i].open <= d[i].high
        /\ d[i].low <= d[i].close /\ d[i].close <= d[i].high

\* C10: for candles with positive prices and low <= open, close <= high,
\* every returned signal has entry = last close, every BEARISH signal has
\* target < entry < stop_loss and every BULLISH signal has stop_loss < entry <
\* target, the Head and Shoulders signal included.
C10_TradeLevelsSane ==
    \A t \in Threads :
        Returned(t) /\ ValidCandles(data[t]) =>
            \A i \in 1..Len(ret[t]) :
                LET sig == ret[t][i] IN
                /\ sig.entry = LastClose(data[t]) * 400
                /\ sig.type = "BEARISH" =>
                       sig.target < sig.entry /\ sig.entry < sig.stop_loss
                /\ sig.type = "BULLISH" =>
                       sig.stop_loss < sig.entry /\ sig.entry < sig.target

===========================================================================
